---------------------------- MODULE Spec2Model ----------------------------
(***************************************************************************)
(* deno-kv-plus (src/mod.ts): setSafeAtomicMany / setSafeAtomic, the       *)
(* optimistic read -> compute -> check-and-commit -> retry loop layered on *)
(* a Deno KV store.  Each call is a process whose steps are the segments   *)
(* of the async function between its awaits: the getMany round trip        *)
(* (Read), the synchronous part that runs the caller's update function and *)
(* builds the transaction (Compute), and the commit round trip with the    *)
(* decision that follows it (Commit).  Other users of the same store are   *)
(* the other calls and a plain kv.set writer (ExtSet).                     *)
(***************************************************************************)
EXTENDS Integers, Sequences, FiniteSets, TLC

(***************************************************************************)
(* Bounds of the model.                                                    *)
(***************************************************************************)
NumKeys == 2
NumCalls == 2
MaxExtWrites == 2

(***************************************************************************)
(* Program constants.                                                      *)
(***************************************************************************)
DefaultRetryCount == 10
TransferAmount == 50

Keys == 1..NumKeys
Procs == 1..NumCalls

(***************************************************************************)
(* JavaScript values held by the store and handed to update functions.     *)
(* A value is a tagged tuple, so that null (an absent key), undefined (a   *)
(* function that returns nothing) and numbers stay distinct.               *)
(***************************************************************************)
Null == <<"null">>
Undefined == <<"undefined">>
NaN == <<"NaN">>
Num(n) == <<"number", n>>

\* value + n in JavaScript: null counts as 0, undefined and NaN give NaN.
Plus(v, n) ==
  IF v[1] = "number" THEN Num(v[2] + n)
  ELSE IF v = Null THEN Num(n)
  ELSE NaN

\* value < n in JavaScript: null counts as 0, a comparison with NaN is false.
LessThan(v, n) ==
  IF v[1] = "number" THEN v[2] < n
  ELSE IF v = Null THEN 0 < n
  ELSE FALSE

\* abort() called without an argument, and the initial abortReason / error.
NoReason == "<undefined>"
NullError == "<null>"
Truthy(reason) == reason \notin {NoReason, ""}

CommitFailed == "Failed to commit transaction"
MissingReturn == "updateValues must return an array of values to update"
CountMismatch ==
  "The number of resuts returned from the update callback must match the number of keys"

Range(s) == {s[i] : i \in 1..Len(s)}

(***************************************************************************)
(* The store: every key holds a value and a versionstamp; an absent key    *)
(* reads as value null with the null versionstamp (0 here).  Every write   *)
(* stamps the keys it sets with a fresh versionstamp.                      *)
(***************************************************************************)
AbsentEntry == [value |-> Null, versionstamp |-> 0]

\* kv.getMany(keys): one entry per key, in the order of the keys.
GetMany(store, ks) ==
  [i \in 1..Len(ks) |->
     [key |-> ks[i], value |-> store[ks[i]].value,
      versionstamp |-> store[ks[i]].versionstamp]]

\* results.map(result => result.value)
ValuesOf(entries) == [i \in 1..Len(entries) |-> entries[i].value]

\* A commit that also fails when any key of the store is newer than a
\* versionstamp it checks.
ChecksPassStoreWide(store, ops) ==
  \A j \in 1..Len(ops) :
     ops[j].op = "check" =>
        /\ store[ops[j].key].versionstamp = ops[j].versionstamp
        /\ \A k \in Keys : store[k].versionstamp <= ops[j].versionstamp

\* tx.commit(): ok iff every check still matches the store.
ChecksPass(store, ops) ==
  \A j \in 1..Len(ops) :
     ops[j].op = "check" => store[ops[j].key].versionstamp = ops[j].versionstamp

\* tx.commit(): the sets applied in order (the last set of a key wins), all
\* stamped with the commit's versionstamp.
ApplySets(store, ops, version) ==
  [k \in Keys |->
     LET js == {j \in 1..Len(ops) : ops[j].op = "set" /\ ops[j].key = k}
     IN IF js = {} THEN store[k]
        ELSE [value |-> ops[CHOOSE j \in js : \A i \in js : i <= j].value,
              versionstamp |-> version]]

(***************************************************************************)
(* The caller's update functions.  Invoking one yields the abort calls it  *)
(* made (their reasons, in order), whether it returned something, the      *)
(* value it returned, and the array it was handed as it is after the call  *)
(* (an update function may modify that array in place).                    *)
(***************************************************************************)
MockValue == Num(123)
MockUpdatedValue == Num(1000)
MockUpdatedValues == <<Num(1001), Num(1002)>>
InsufficientFunds == "Chad has too little money to send 50 monies to Stacy."
FirstReason == "first reason"
SecondReason == "second reason"

\* updateValue(value, abort) of setSafeAtomic, by kind of function.
UpdateValue(kind, value) ==
  CASE kind = "increment" ->
         \* (value, abort) => value + 1
         [aborts |-> <<>>, value |-> Plus(value, 1)]
    [] kind = "abortAndReturn" ->
         \* (_value, abort) => { abort(); return mockUpdatedValue; }
         [aborts |-> <<NoReason>>, value |-> MockUpdatedValue]
    [] kind = "setValue" ->
         \* (_value) => mockValue
         [aborts |-> <<>>, value |-> MockValue]
    [] kind = "identity" ->
         \* (value, abort) => value
         [aborts |-> <<>>, value |-> value]
    [] kind = "abortTwice" ->
         \* (_value, abort) => { abort(firstReason); abort(secondReason); }
         [aborts |-> <<FirstReason, SecondReason>>, value |-> Undefined]
    [] kind = "abortThenBare" ->
         \* (_value, abort) => { abort(firstReason); abort(); }
         [aborts |-> <<FirstReason, NoReason>>, value |-> Undefined]
    [] kind = "abortThenEmpty" ->
         \* (_value, abort) => { abort(firstReason); abort(""); }
         [aborts |-> <<FirstReason, "">>, value |-> Undefined]
    [] kind = "abortEmpty" ->
         \* (_value, abort) => { abort(""); }
         [aborts |-> <<"">>, value |-> Undefined]
    [] kind = "nothing" ->
         \* (_value) => {}
         [aborts |-> <<>>, value |-> Undefined]

\* The single-key function each "first..." kind of updateValues is written
\* around.
FirstOf ==
  [firstIncrement |-> "increment", firstAbortAndReturn |-> "abortAndReturn",
   firstSetValue |-> "setValue", firstIdentity |-> "identity",
   firstAbortTwice |-> "abortTwice", firstAbortEmpty |-> "abortEmpty"]

\* (values, abort) => [updateValue(values[0], abort)], written by a caller of
\* setSafeAtomicMany around a single-key function.
ViaFirst(kind, values) ==
  LET r == UpdateValue(kind, values[1])
  IN [aborts |-> r.aborts, returned |-> TRUE, value |-> <<r.value>>,
      args |-> values]

\* updateValues(values, abort) of setSafeAtomicMany, by kind of function.
UpdateValues(kind, values) ==
  CASE kind = "increment" ->
         \* values => values.map(v => v + 1)
         [aborts |-> <<>>, returned |-> TRUE,
          value |-> [i \in 1..Len(values) |-> Plus(values[i], 1)],
          args |-> values]
    [] kind = "transfer" ->
         \* the README's transfer between two balances
         IF LessThan(values[1], TransferAmount)
         THEN [aborts |-> <<InsufficientFunds>>, returned |-> FALSE,
               value |-> <<>>, args |-> values]
         ELSE [aborts |-> <<>>, returned |-> TRUE,
               value |-> <<Plus(values[1], -TransferAmount),
                           Plus(values[2], TransferAmount)>>,
               args |-> values]
    [] kind = "transferInPlace" ->
         \* the same transfer written on the array it was handed: it updates
         \* both balances in place, then aborts or returns that same array
         LET moved == <<Plus(values[1], -TransferAmount),
                        Plus(values[2], TransferAmount)>>
         IN IF LessThan(moved[1], 0)
            THEN [aborts |-> <<InsufficientFunds>>, returned |-> FALSE,
                  value |-> <<>>, args |-> moved]
            ELSE [aborts |-> <<>>, returned |-> TRUE,
                  value |-> moved, args |-> moved]
    [] kind = "abortAndReturn" ->
         \* (_values, abort) => { abort(); return mockUpdatedValues; }
         [aborts |-> <<NoReason>>, returned |-> TRUE,
          value |-> MockUpdatedValues, args |-> values]
    [] kind = "setValues" ->
         \* () => mockUpdatedValues
         [aborts |-> <<>>, returned |-> TRUE,
          value |-> MockUpdatedValues, args |-> values]
    [] kind = "identity" ->
         \* (values, abort) => values
         [aborts |-> <<>>, returned |-> TRUE, value |-> values, args |-> values]
    [] kind = "nothing" ->
         \* (_values) => {}
         [aborts |-> <<>>, returned |-> FALSE, value |-> <<>>, args |-> values]
    [] kind = "withdrawOrNothing" ->
         \* values => { if (values[0] < 50) return;
         \*             return [values[0] - 50, ...values.slice(1)]; }
         IF LessThan(values[1], TransferAmount)
         THEN [aborts |-> <<>>, returned |-> FALSE, value |-> <<>>,
               args |-> values]
         ELSE [aborts |-> <<>>, returned |-> TRUE,
               value |-> [i \in 1..Len(values) |->
                            IF i = 1 THEN Plus(values[1], -TransferAmount)
                            ELSE values[i]],
               args |-> values]
    [] kind = "keepFunded" ->
         \* values => values.filter(v => !(v < 50))
         [aborts |-> <<>>, returned |-> TRUE,
          value |-> SelectSeq(values, LAMBDA v : ~LessThan(v, TransferAmount)),
          args |-> values]
    [] kind = "dropFirst" ->
         \* values => values.slice(1)
         [aborts |-> <<>>, returned |-> TRUE, value |-> Tail(values),
          args |-> values]
    [] kind = "abortTwice" ->
         \* (_values, abort) => { abort(firstReason); abort(secondReason); }
         [aborts |-> <<FirstReason, SecondReason>>, returned |-> FALSE,
          value |-> <<>>, args |-> values]
    [] kind = "abortThenBare" ->
         \* (_values, abort) => { abort(firstReason); abort(); }
         [aborts |-> <<FirstReason, NoReason>>, returned |-> FALSE,
          value |-> <<>>, args |-> values]
    [] kind = "abortThenEmpty" ->
         \* (_values, abort) => { abort(firstReason); abort(""); }
         [aborts |-> <<FirstReason, "">>, returned |-> FALSE,
          value |-> <<>>, args |-> values]
    [] kind = "abortEmpty" ->
         \* (_values, abort) => { abort(""); }
         [aborts |-> <<"">>, returned |-> FALSE, value |-> <<>>,
          args |-> values]
    [] kind \in DOMAIN FirstOf ->
         \* (values, abort) => [updateValue(values[0], abort)]
         ViaFirst(FirstOf[kind], values)

\* A wrapper that hands the function's result on as it is, not in an array
\* ((values, abort) => updateValue(values[0], abort)): nothing stays nothing,
\* and anything else is no array of one value.
WrappedUpdateValueBare(kind, values) ==
  LET r == UpdateValue(kind, values[1])
  IN [aborts |-> r.aborts, returned |-> r.value # Undefined, value |-> <<>>,
      args |-> values]

\* A wrapper that does not hand the abort closure's calls on.
WrappedUpdateValueDetached(kind, values) ==
  LET r == UpdateValue(kind, values[1])
  IN [aborts |-> <<>>, returned |-> TRUE, value |-> <<r.value>>,
      args |-> values]

\* The function setSafeAtomic hands to setSafeAtomicMany:
\* (values, abort) => [updateValue(values[0], abort)]
WrappedUpdateValue(kind, values) ==
  LET r == UpdateValue(kind, values[1])
  IN [aborts |-> r.aborts, returned |-> TRUE, value |-> <<r.value>>,
      args |-> values]

\* The update function as setSafeAtomicMany sees it, for either entry point.
Invoke(api, kind, values) ==
  IF api = "single" THEN WrappedUpdateValue(kind, values)
  ELSE UpdateValues(kind, values)

(***************************************************************************)
(* The abort closure: aborting = true; if (reason) abortReason = reason.   *)
(***************************************************************************)
\* An abort closure that records the reason and forgets the flag.
AbortCallForgets(state, reason) ==
  [aborting |-> state.aborting,
   abortReason |-> IF Truthy(reason) THEN reason ELSE state.abortReason]

\* An abort closure that stores whatever it is handed, with or without a
\* reason (abortReason = reason).
AbortCallOverwrites(state, reason) ==
  [aborting |-> TRUE, abortReason |-> reason]

\* An abort closure that keeps every reason but a missing one
\* (if (reason !== undefined) abortReason = reason).
AbortCallKeepsEmpty(state, reason) ==
  [aborting |-> TRUE,
   abortReason |-> IF reason # NoReason THEN reason ELSE state.abortReason]

AbortCall(state, reason) ==
  [aborting |-> TRUE,
   abortReason |-> IF Truthy(reason) THEN reason ELSE state.abortReason]

RECURSIVE RunAborts(_, _)
RunAborts(state, aborts) ==
  IF aborts = <<>> THEN state
  ELSE RunAborts(AbortCall(state, Head(aborts)), Tail(aborts))

\* let aborting = false; let abortReason = null; then the function's calls.
AbortState(aborts) ==
  RunAborts([aborting |-> FALSE, abortReason |-> NullError], aborts)

\* const originalResultValues = resultValues: the same array, not a copy.
OriginalResultValuesAliased(resultValues, args) == args

\* const originalResultValues = structuredClone(resultValues): a copy taken
\* before the update function runs, so untouched by what it does to its
\* argument.  (resultValues: the array before the call; args: after it.)
OriginalResultValues(resultValues, args) == resultValues

\* A transaction built without its checks.
BuildTxNoChecks(entries, updatedValues) ==
  [i \in 1..Len(updatedValues) |->
     [op |-> "set", key |-> entries[i].key, value |-> updatedValues[i]]]

\* A transaction whose loop stops one key early.
BuildTxShort(entries, updatedValues) ==
  [j \in 1..(2 * (Len(updatedValues) - 1)) |->
     LET i == (j + 1) \div 2
     IN IF j % 2 = 1
        THEN [op |-> "check", key |-> entries[i].key,
              versionstamp |-> entries[i].versionstamp]
        ELSE [op |-> "set", key |-> entries[i].key,
              value |-> updatedValues[i]]]

\* const tx = this.atomic(); for each i: tx.check(results[i]);
\* tx.set(results[i].key, updatedValues[i]).
BuildTx(entries, updatedValues) ==
  [j \in 1..(2 * Len(updatedValues)) |->
     LET i == (j + 1) \div 2
     IN IF j % 2 = 1
        THEN [op |-> "check", key |-> entries[i].key,
              versionstamp |-> entries[i].versionstamp]
        ELSE [op |-> "set", key |-> entries[i].key,
              value |-> updatedValues[i]]]

\* retryCount: number = 10 (an omitted argument, <<>>, takes the default).
RetryCountOf(arg) == IF arg = <<>> THEN DefaultRetryCount ELSE arg[1]

(***************************************************************************)
(* State.                                                                  *)
(*   kv, clock      the store and the last versionstamp it issued          *)
(*   call           each call's arguments: entry point, keys, update       *)
(*                  function, retryCount argument (never changed)          *)
(*   pc             where each call is: "idle" (never made), "reading",    *)
(*                  "computing", "committing", or how it ended:            *)
(*                  "committed", "aborted", "exhausted", "thrown"          *)
(*   retryCount     the retryCount of the current invocation               *)
(*   results, originalResultValues, updatedValues, tx                      *)
(*                  the locals of the current invocation                   *)
(*   response       what the call resolved to; raised: the error it threw  *)
(* History, recorded for the properties and read by no action's guard:     *)
(*   kv0            the store at the start                                 *)
(*   extWrites      the number of kv.set writes made so far                *)
(*   writtenBy      who wrote each key last (0: nobody yet)                *)
(*   count          per call: reads, update function invocations, commit   *)
(*                  attempts, failed commits, and attempts during which    *)
(*                  somebody else wrote a watched key after the read       *)
(*   dirty          somebody else wrote a watched key since the call's     *)
(*                  last read and before its commit                        *)
(*   preCommit, postCommit                                                 *)
(*                  the watched entries just before and just after the     *)
(*                  call's last commit attempt                             *)
(***************************************************************************)
VARIABLES kv, clock, call, pc, retryCount, results, originalResultValues,
          updatedValues, tx, response, raised,
          kv0, extWrites, writtenBy, count, dirty, preCommit, postCommit

vars == <<kv, clock, call, pc, retryCount, results, originalResultValues,
          updatedValues, tx, response, raised,
          kv0, extWrites, writtenBy, count, dirty, preCommit, postCommit>>

ExtWriter == NumCalls + 1

NoCall == [api |-> "none", keys |-> <<>>, fn |-> "none", retry |-> <<>>]
NoResponse == [ok |-> FALSE, error |-> "<pending>"]
NoCount == [reads |-> 0, computes |-> 0, commits |-> 0, conflicts |-> 0,
            interfered |-> 0]

InFlight(p) == pc[p] \in {"computing", "committing"}
Ended(p) == pc[p] \in {"committed", "aborted", "exhausted", "thrown"}
Watched(p) == Range(call[p].keys)

\* The history of a write by `writer` to the keys ks: every other call that
\* has read and not yet committed, and watches one of them, is now dirty.
DirtyAfter(writer, ks) ==
  [q \in Procs |->
     dirty[q] \/ (q # writer /\ InFlight(q) /\ Watched(q) \cap ks # {})]

InterferedAfter(writer, ks, cnt) ==
  [q \in Procs |->
     IF ~dirty[q] /\ DirtyAfter(writer, ks)[q]
     THEN [cnt[q] EXCEPT !.interfered = @ + 1]
     ELSE cnt[q]]

(***************************************************************************)
(* The calls made and the stores they start on.                            *)
(***************************************************************************)
\* Batches of distinct keys, in any order.
Batches ==
  {ks \in UNION {[1..n -> Keys] : n \in 1..NumKeys} :
     \A i, j \in 1..Len(ks) : i # j => ks[i] # ks[j]}

RetryArgs == {<<>>, <<0>>, <<1>>}

SingleKinds == {"increment", "abortAndReturn", "setValue"}
ManyKinds ==
  {"increment", "transfer", "transferInPlace", "abortAndReturn", "setValues"}

\* The two-balance transfers are made on batches of at least two keys.
Configs ==
  {c \in [api : {"single"}, keys : Batches, fn : SingleKinds, retry : RetryArgs] :
     Len(c.keys) = 1}
  \cup
  {c \in [api : {"many"}, keys : Batches, fn : ManyKinds, retry : RetryArgs] :
     c.fn \in {"transfer", "transferInPlace"} => Len(c.keys) >= 2}

InitialValues == {Null, Num(100)}
ExtValues == {Num(20)}

\* A store as kv.set leaves it: an absent key has no versionstamp.
StoreOf(values) ==
  [k \in Keys |->
     IF values[k] = Null THEN AbsentEntry
     ELSE [value |-> values[k], versionstamp |-> 1]]

\* The state after the calls were made with the arguments calls[p].
InitWith(calls, store) ==
  /\ kv = store
  /\ clock = 1
  /\ call = calls
  /\ pc = [p \in Procs |-> IF calls[p] = NoCall THEN "idle" ELSE "reading"]
  /\ retryCount = [p \in Procs |-> RetryCountOf(calls[p].retry)]
  /\ results = [p \in Procs |-> <<>>]
  /\ originalResultValues = [p \in Procs |-> <<>>]
  /\ updatedValues = [p \in Procs |-> <<>>]
  /\ tx = [p \in Procs |-> <<>>]
  /\ response = [p \in Procs |-> NoResponse]
  /\ raised = [p \in Procs |-> ""]
  /\ kv0 = store
  /\ extWrites = 0
  /\ writtenBy = [k \in Keys |-> 0]
  /\ count = [p \in Procs |-> NoCount]
  /\ dirty = [p \in Procs |-> FALSE]
  /\ preCommit = [p \in Procs |-> <<>>]
  /\ postCommit = [p \in Procs |-> <<>>]

\* The calls made beside call 1: an increment of every key, a transfer from
\* key 1 to key 2, a single-key overwrite of key 1 without retries.
AllKeys == [i \in 1..NumKeys |-> i]
Companions ==
  {[api |-> "many", keys |-> AllKeys, fn |-> "increment", retry |-> <<>>],
   [api |-> "many", keys |-> <<1, 2>>, fn |-> "transfer", retry |-> <<1>>],
   [api |-> "single", keys |-> <<1>>, fn |-> "setValue", retry |-> <<0>>]}

\* Call 1 is any call; calls 2..n (n >= 1) are companions, the rest is never
\* made.
Calls ==
  {cs \in [Procs -> Configs \cup {NoCall}] :
     /\ cs[1] # NoCall
     /\ \A p \in Procs \ {1} : cs[p] \in Companions \cup {NoCall}
     /\ \A p, q \in Procs : (cs[p] = NoCall /\ q > p) => cs[q] = NoCall}

Init ==
  \E cs \in Calls, vs \in [Keys -> InitialValues] : InitWith(cs, StoreOf(vs))

(***************************************************************************)
(* const results = await this.getMany(keys)                                *)
(***************************************************************************)
Read(p) ==
  /\ pc[p] = "reading"
  /\ results' = [results EXCEPT ![p] = GetMany(kv, call[p].keys)]
  /\ pc' = [pc EXCEPT ![p] = "computing"]
  /\ count' = [count EXCEPT ![p].reads = @ + 1]
  /\ dirty' = [dirty EXCEPT ![p] = FALSE]
  /\ UNCHANGED <<kv, clock, call, retryCount, originalResultValues,
                 updatedValues, tx, response, raised, kv0, extWrites,
                 writtenBy, preCommit, postCommit>>

\* What the call resolves to: setSafeAtomicMany's response, which
\* setSafeAtomic turns into { ok, error, value: values[0] }.
ResponseOf(api, ok, error, values) ==
  IF api = "single"
  THEN [ok |-> ok, error |-> error, value |-> values[1]]
  ELSE [ok |-> ok, error |-> error, values |-> values]

\* A length test that only rejects too many values.
ThrownOnlyWhenLonger(returned, value, entries) ==
  IF ~returned THEN MissingReturn
  ELSE IF Len(value) > Len(entries) THEN CountMismatch
  ELSE ""

\* if (!updatedValues) throw ...; if (updatedValues.length !== results.length)
\* throw ...: the error thrown for what the update function returned ("" for
\* none).
Thrown(returned, value, entries) ==
  IF ~returned THEN MissingReturn
  ELSE IF Len(value) # Len(entries) THEN CountMismatch
  ELSE ""

(***************************************************************************)
(* From the resolved read to the commit being issued: the update function  *)
(* runs on the values read; an abort returns, a missing or miscounted      *)
(* return value throws, otherwise the transaction is built.                *)
(***************************************************************************)
Compute(p) ==
  /\ pc[p] = "computing"
  /\ LET resultValues == ValuesOf(results[p])
         ran == Invoke(call[p].api, call[p].fn, resultValues)
         original == OriginalResultValues(resultValues, ran.args)
         ab == AbortState(ran.aborts)
     IN /\ originalResultValues' = [originalResultValues EXCEPT ![p] = original]
        /\ IF ab.aborting
           THEN /\ pc' = [pc EXCEPT ![p] = "aborted"]
                /\ response' = [response EXCEPT ![p] =
                      ResponseOf(call[p].api, FALSE, ab.abortReason, original)]
                /\ UNCHANGED <<updatedValues, tx, raised>>
           ELSE IF Thrown(ran.returned, ran.value, results[p]) # ""
           THEN /\ pc' = [pc EXCEPT ![p] = "thrown"]
                /\ raised' = [raised EXCEPT ![p] =
                      Thrown(ran.returned, ran.value, results[p])]
                /\ updatedValues' = [updatedValues EXCEPT ![p] = ran.value]
                /\ UNCHANGED <<tx, response>>
           ELSE /\ pc' = [pc EXCEPT ![p] = "committing"]
                /\ updatedValues' = [updatedValues EXCEPT ![p] = ran.value]
                /\ tx' = [tx EXCEPT ![p] = BuildTx(results[p], ran.value)]
                /\ UNCHANGED <<response, raised>>
  /\ count' = [count EXCEPT ![p].computes = @ + 1]
  /\ UNCHANGED <<kv, clock, call, retryCount, results, kv0, extWrites,
                 writtenBy, dirty, preCommit, postCommit>>

\* A test that gives up with one retry left.
ExhaustedEarly(ok, retries) == ~ok /\ retries <= 1

\* A test that gives up at any budget not above zero.
ExhaustedAtOrBelowZero(ok, retries) == ~ok /\ retries <= 0

\* if (!ok && retryCount === 0)
Exhausted(ok, retries) == ~ok /\ retries = 0

(***************************************************************************)
(* const { ok } = await tx.commit(), and what follows it: the response on  *)
(* success, the response on the last failure, or the next invocation with  *)
(* retryCount - 1.                                                         *)
(***************************************************************************)
Commit(p) ==
  /\ pc[p] = "committing"
  /\ LET ok == ChecksPass(kv, tx[p])
         after == IF ok THEN ApplySets(kv, tx[p], clock + 1) ELSE kv
         written == IF ok THEN {tx[p][j].key : j \in 1..Len(tx[p])} ELSE {}
     IN /\ kv' = after
        /\ clock' = IF ok THEN clock + 1 ELSE clock
        /\ writtenBy' = [k \in Keys |-> IF k \in written THEN p ELSE writtenBy[k]]
        /\ preCommit' = [preCommit EXCEPT ![p] = GetMany(kv, call[p].keys)]
        /\ postCommit' = [postCommit EXCEPT ![p] = GetMany(after, call[p].keys)]
        /\ dirty' = DirtyAfter(p, written)
        /\ IF ok
           THEN /\ pc' = [pc EXCEPT ![p] = "committed"]
                /\ response' = [response EXCEPT ![p] =
                      ResponseOf(call[p].api, TRUE, NullError, updatedValues[p])]
                /\ count' = [InterferedAfter(p, written, count)
                               EXCEPT ![p].commits = @ + 1]
                /\ UNCHANGED <<retryCount, results, originalResultValues,
                               updatedValues, tx>>
           ELSE IF Exhausted(ok, retryCount[p])
           THEN /\ pc' = [pc EXCEPT ![p] = "exhausted"]
                /\ response' = [response EXCEPT ![p] =
                      ResponseOf(call[p].api, FALSE, CommitFailed,
                                 originalResultValues[p])]
                /\ count' = [count EXCEPT ![p].commits = @ + 1,
                                          ![p].conflicts = @ + 1]
                /\ UNCHANGED <<retryCount, results, originalResultValues,
                               updatedValues, tx>>
           ELSE \* return this.setSafeAtomicMany(keys, updateValues, retryCount - 1)
                /\ pc' = [pc EXCEPT ![p] = "reading"]
                /\ retryCount' = [retryCount EXCEPT ![p] = @ - 1]
                /\ results' = [results EXCEPT ![p] = <<>>]
                /\ originalResultValues' = [originalResultValues EXCEPT ![p] = <<>>]
                /\ updatedValues' = [updatedValues EXCEPT ![p] = <<>>]
                /\ tx' = [tx EXCEPT ![p] = <<>>]
                /\ count' = [count EXCEPT ![p].commits = @ + 1,
                                          ![p].conflicts = @ + 1]
                /\ UNCHANGED response
  /\ UNCHANGED <<call, raised, kv0, extWrites>>

(***************************************************************************)
(* Another user of the store: kv.set(key, value).                          *)
(***************************************************************************)
ExtSet(k, v) ==
  /\ extWrites < MaxExtWrites
  /\ kv' = [kv EXCEPT ![k] = [value |-> v, versionstamp |-> clock + 1]]
  /\ clock' = clock + 1
  /\ extWrites' = extWrites + 1
  /\ writtenBy' = [writtenBy EXCEPT ![k] = ExtWriter]
  /\ dirty' = DirtyAfter(ExtWriter, {k})
  /\ count' = InterferedAfter(ExtWriter, {k}, count)
  /\ UNCHANGED <<call, pc, retryCount, results, originalResultValues,
                 updatedValues, tx, response, raised, kv0, preCommit,
                 postCommit>>

CallStep == \E p \in Procs : Read(p) \/ Compute(p) \/ Commit(p)

Next == CallStep \/ \E k \in Keys, v \in ExtValues : ExtSet(k, v)

Spec == Init /\ [][Next]_vars

(***************************************************************************)
(* Scenario: every call increments key 1; nobody else writes.              *)
(***************************************************************************)
IncrConfigs ==
  {c \in Configs : c.fn = "increment" /\ c.keys = <<1>>}

IncrCalls ==
  {cs \in [Procs -> IncrConfigs \cup {NoCall}] :
     /\ cs[1] # NoCall
     /\ \A p, q \in Procs : (cs[p] = NoCall /\ q > p) => cs[q] = NoCall}

IncrStores ==
  {StoreOf([k \in Keys |-> IF k = 1 THEN v ELSE Null]) : v \in {Num(0), Num(100)}}

InitIncr == \E cs \in IncrCalls, store \in IncrStores : InitWith(cs, store)

SpecIncr == InitIncr /\ [][CallStep]_vars

(***************************************************************************)
(* Scenario: every call is a transfer between two balances, in either      *)
(* direction; nobody else writes.                                          *)
(***************************************************************************)
TransferConfigs ==
  {c \in Configs :
     /\ c.fn \in {"transfer", "transferInPlace"}
     /\ c.keys \in {<<1, 2>>, <<2, 1>>}
     /\ c.retry \in {<<>>, <<0>>}}

TransferCalls == [Procs -> TransferConfigs]

TransferValues == {Null, Num(50), Num(100)}

\* The two balances hold any of the values; the other keys are absent.
TransferStores ==
  {StoreOf([k \in Keys |-> IF k <= 2 THEN vs[k] ELSE Null]) :
     vs \in [1..2 -> TransferValues]}

InitTransfer ==
  \E cs \in TransferCalls, store \in TransferStores : InitWith(cs, store)

SpecTransfer == InitTransfer /\ [][CallStep]_vars

(***************************************************************************)
(* Scenario: call 1 hands the value(s) it read straight back (the README's *)
(* starter templates); beside it run a companion or a second such call,    *)
(* and the kv.set writer.                                                  *)
(***************************************************************************)
IdentityConfigs ==
  {c \in [api : {"single", "many"}, keys : Batches, fn : {"identity"},
          retry : RetryArgs] :
     c.api = "single" => Len(c.keys) = 1}

IdentityCalls ==
  {cs \in [Procs -> IdentityConfigs \cup Companions \cup {NoCall}] :
     /\ cs[1] \in IdentityConfigs
     /\ \A p \in Procs \ {1} :
          \/ cs[p] \in Companions \cup {NoCall}
          \/ cs[p] \in IdentityConfigs /\ cs[p].keys = AllKeys /\ cs[p].retry = <<1>>
     /\ \A p, q \in Procs : (cs[p] = NoCall /\ q > p) => cs[q] = NoCall}

InitIdentity ==
  \E cs \in IdentityCalls, vs \in [Keys -> InitialValues] :
     InitWith(cs, StoreOf(vs))

SpecIdentity == InitIdentity /\ [][Next]_vars

(***************************************************************************)
(* Scenario: setSafeAtomic(key 1, fn, budget) beside                       *)
(* setSafeAtomicMany([key 2], (values, abort) => [fn(values[0], abort)],   *)
(* budget), on two keys that start equal, run in step: call 1 takes a      *)
(* step, call 2 takes the same step, and the other writer sets both keys   *)
(* to the same value between two such rounds.  (The schedule is told from  *)
(* the history; the calls themselves never read it.)                       *)
(***************************************************************************)
PairKinds == DOMAIN FirstOf

PairCalls ==
  {cs \in [Procs -> [api : {"single", "many"}, keys : {<<1>>, <<2>>},
                     fn : PairKinds \cup {FirstOf[k] : k \in PairKinds},
                     retry : RetryArgs] \cup {NoCall}] :
     /\ cs[1].api = "single" /\ cs[1].keys = <<1>>
     /\ cs[2].api = "many" /\ cs[2].keys = <<2>>
     /\ cs[2].fn \in PairKinds /\ cs[1].fn = FirstOf[cs[2].fn]
     /\ cs[1].retry = cs[2].retry
     /\ \A p \in Procs \ {1, 2} : cs[p] = NoCall}

PairStores ==
  {StoreOf([k \in Keys |-> IF k <= 2 THEN v ELSE Null]) : v \in InitialValues}

InitPair == \E cs \in PairCalls, store \in PairStores : InitWith(cs, store)

\* The number of steps a call has taken.
Position(p) == count[p].reads + count[p].computes + count[p].commits

PairLead ==
  /\ Position(1) = Position(2)
  /\ (Read(1) \/ Compute(1) \/ Commit(1))

PairFollow ==
  /\ Position(2) < Position(1)
  /\ (Read(2) \/ Compute(2) \/ Commit(2))

\* kv.set(key 1, v) and kv.set(key 2, v), between two rounds.
PairSet(v) ==
  /\ Position(1) = Position(2)
  /\ extWrites < MaxExtWrites
  /\ kv' = [kv EXCEPT ![1] = [value |-> v, versionstamp |-> clock + 1],
                      ![2] = [value |-> v, versionstamp |-> clock + 2]]
  /\ clock' = clock + 2
  /\ extWrites' = extWrites + 1
  /\ writtenBy' = [writtenBy EXCEPT ![1] = ExtWriter, ![2] = ExtWriter]
  /\ dirty' = DirtyAfter(ExtWriter, {1, 2})
  /\ count' = InterferedAfter(ExtWriter, {1, 2}, count)
  /\ UNCHANGED <<call, pc, retryCount, results, originalResultValues,
                 updatedValues, tx, response, raised, kv0, preCommit,
                 postCommit>>

NextPair == PairLead \/ PairFollow \/ \E v \in ExtValues : PairSet(v)

SpecPair == InitPair /\ [][NextPair]_vars

(***************************************************************************)
(* Scenario: call 1 is a setSafeAtomicMany call whose update function      *)
(* returns nothing, or too few or too many values, always or only on the   *)
(* values another writer leaves; beside it run a companion and the kv.set  *)
(* writer.                                                                 *)
(***************************************************************************)
ErrorKinds ==
  {"nothing", "withdrawOrNothing", "keepFunded", "dropFirst", "setValues"}

ErrorConfigs ==
  [api : {"many"}, keys : Batches, fn : ErrorKinds, retry : RetryArgs]

ErrorCalls ==
  {cs \in [Procs -> ErrorConfigs \cup Companions \cup {NoCall}] :
     /\ cs[1] \in ErrorConfigs
     /\ \A p \in Procs \ {1} : cs[p] \in Companions \cup {NoCall}
     /\ \A p, q \in Procs : (cs[p] = NoCall /\ q > p) => cs[q] = NoCall}

InitErrors ==
  \E cs \in ErrorCalls, vs \in [Keys -> InitialValues] :
     InitWith(cs, StoreOf(vs))

SpecErrors == InitErrors /\ [][Next]_vars

(***************************************************************************)
(* Scenario: call 1 invokes abort once or several times, with a reason,    *)
(* with an empty one or with none, or (an increment, a transfer) commits   *)
(* or runs out of retries; beside it run an increment of every key and the *)
(* kv.set writer.                                                          *)
(***************************************************************************)
AbortKinds ==
  {"abortTwice", "abortThenBare", "abortThenEmpty", "abortEmpty",
   "abortAndReturn"}

AbortConfigs ==
  {c \in [api : {"single", "many"}, keys : Batches,
          fn : AbortKinds \cup {"increment", "transfer"}, retry : RetryArgs] :
     /\ c.api = "single" => (Len(c.keys) = 1 /\ c.fn # "transfer")
     /\ c.fn = "transfer" => Len(c.keys) >= 2}

AbortCalls ==
  {cs \in [Procs -> AbortConfigs \cup {NoCall}] :
     /\ cs[1] # NoCall
     /\ \A p \in Procs \ {1} :
          cs[p] \in {NoCall, [api |-> "many", keys |-> AllKeys,
                              fn |-> "increment", retry |-> <<>>]}
     /\ \A p, q \in Procs : (cs[p] = NoCall /\ q > p) => cs[q] = NoCall}

InitAborts ==
  \E cs \in AbortCalls, vs \in [Keys -> InitialValues] :
     InitWith(cs, StoreOf(vs))

SpecAborts == InitAborts /\ [][Next]_vars

(***************************************************************************)
(* Scenario: every call increments or overwrites a batch that holds key 1, *)
(* so any two calls overlap; no update function aborts and nobody else     *)
(* writes.                                                                 *)
(***************************************************************************)
OverlapConfigs ==
  {c \in [api : {"single", "many"}, keys : {<<1>>, <<1, 2>>, <<2, 1>>},
          fn : {"increment", "setValue", "setValues"}, retry : RetryArgs] :
     /\ c.api = "single" => (Len(c.keys) = 1 /\ c.fn # "setValues")
     /\ c.api = "many" => c.fn # "setValue"
     /\ c.fn = "setValues" => Len(c.keys) = 2}

OverlapCompanions ==
  {[api |-> "many", keys |-> <<1, 2>>, fn |-> "increment", retry |-> <<1>>],
   [api |-> "single", keys |-> <<1>>, fn |-> "setValue", retry |-> <<0>>],
   [api |-> "many", keys |-> <<2, 1>>, fn |-> "setValues", retry |-> <<>>]}

OverlapCalls ==
  {cs \in [Procs -> OverlapConfigs \cup {NoCall}] :
     /\ cs[1] # NoCall
     /\ \A p \in Procs \ {1} : cs[p] \in OverlapCompanions \cup {NoCall}
     /\ \A p, q \in Procs : (cs[p] = NoCall /\ q > p) => cs[q] = NoCall}

InitOverlap ==
  \E cs \in OverlapCalls, store \in TransferStores : InitWith(cs, store)

SpecOverlap == InitOverlap /\ [][CallStep]_vars

(***************************************************************************)
(* Scenario: call 1 is a setSafeAtomic call; its update function may       *)
(* return nothing.  Beside it run a companion and the kv.set writer.       *)
(***************************************************************************)
SingleConfigs ==
  {c \in [api : {"single"}, keys : Batches,
          fn : {"nothing", "increment", "setValue", "identity",
                "abortAndReturn"},
          retry : RetryArgs] :
     Len(c.keys) = 1}

SingleCalls ==
  {cs \in [Procs -> SingleConfigs \cup Companions \cup {NoCall}] :
     /\ cs[1] \in SingleConfigs
     /\ \A p \in Procs \ {1} : cs[p] \in Companions \cup {NoCall}
     /\ \A p, q \in Procs : (cs[p] = NoCall /\ q > p) => cs[q] = NoCall}

InitSingle ==
  \E cs \in SingleCalls, vs \in [Keys -> InitialValues] :
     InitWith(cs, StoreOf(vs))

SpecSingle == InitSingle /\ [][Next]_vars

(***************************************************************************)
(* Scenario: call 1 is made with a retryCount below zero; beside it run a  *)
(* companion and the kv.set writer.                                        *)
(***************************************************************************)
NegativeRetryArgs == {<<-1>>, <<-2>>}

NegativeConfigs ==
  {c \in [api : {"single", "many"}, keys : Batches,
          fn : {"increment", "setValue", "setValues", "transfer",
                "withdrawOrNothing"},
          retry : NegativeRetryArgs] :
     /\ c.api = "single" => (Len(c.keys) = 1 /\ c.fn \in {"increment", "setValue"})
     /\ c.api = "many" => c.fn # "setValue"
     /\ c.fn = "transfer" => Len(c.keys) >= 2}

NegativeCalls ==
  {cs \in [Procs -> NegativeConfigs \cup Companions \cup {NoCall}] :
     /\ cs[1] \in NegativeConfigs
     /\ \A p \in Procs \ {1} : cs[p] \in Companions \cup {NoCall}
     /\ \A p, q \in Procs : (cs[p] = NoCall /\ q > p) => cs[q] = NoCall}

InitNegative ==
  \E cs \in NegativeCalls, vs \in [Keys -> InitialValues] :
     InitWith(cs, StoreOf(vs))

SpecNegative == InitNegative /\ [][Next]_vars

(***************************************************************************)
(* Vocabulary of the properties.                                           *)
(***************************************************************************)
Made == {p \in Procs : pc[p] # "idle"}
Budget(p) == RetryCountOf(call[p].retry)

\* The values a call resolved with, as a sequence for either entry point.
ResponseValues(p) ==
  IF call[p].api = "single" THEN <<response[p].value>> ELSE response[p].values

\* The call has read (its locals hold the entries of its current attempt).
HasRead(p) == pc[p] \notin {"idle", "reading"}

\* The update function run on the values of the call's current attempt.
Ran(p) == Invoke(call[p].api, call[p].fn, ValuesOf(results[p]))

\* The number a balance or counter stands for.
Amount(v) == IF v[1] = "number" THEN v[2] ELSE 0

RECURSIVE Total(_, _)
Total(store, ks) ==
  IF ks = {} THEN 0
  ELSE LET k == CHOOSE x \in ks : TRUE
       IN Amount(store[k].value) + Total(store, ks \ {k})

RECURSIVE SumOver(_, _)
SumOver(f, ps) ==
  IF ps = {} THEN 0
  ELSE LET q == CHOOSE x \in ps : TRUE IN f[q] + SumOver(f, ps \ {q})

(***************************************************************************)
(* Properties.                                                             *)
(***************************************************************************)

\* C1 (SpecIncr).  No lost updates: with any number of concurrent calls that
\* each increment the same key, in every state the store holds the initial
\* value plus the number of calls that resolved ok:true (so also once all
\* calls have returned), and the calls that resolved ok:true are exactly
\* those whose commit went through: no commit overwrites another one that it
\* had not read.
C1_NoLostUpdates ==
  LET oks == {p \in Procs : response[p].ok}
  IN /\ oks = {p \in Procs : pc[p] = "committed"}
     /\ kv[1].value = Plus(kv0[1].value, Cardinality(oks))

\* C1 witness: all calls have returned, two of them ok:true, one of them
\* after a conflict with the other.
C1_Witness ==
  /\ \A p \in Made : Ended(p)
  /\ Cardinality({p \in Procs : response[p].ok}) >= 2
  /\ \E p \in Procs : response[p].ok /\ count[p].conflicts >= 1

\* C3 (SpecTransfer).  A commit is all-or-nothing: after a call's commit
\* attempt its watched keys are either exactly as before it, or all hold the
\* call's new values under one fresh versionstamp; and with concurrent
\* transfers between the balances their total never changes.
C3_AllOrNothing ==
  /\ Total(kv, Keys) = Total(kv0, Keys)
  /\ \A p \in Procs :
       preCommit[p] # <<>> =>
         \/ postCommit[p] = preCommit[p]
         \/ /\ pc[p] = "committed"
            /\ ValuesOf(postCommit[p]) = updatedValues[p]
            /\ \A i \in 1..Len(postCommit[p]) :
                 /\ postCommit[p][i].versionstamp = postCommit[p][1].versionstamp
                 /\ postCommit[p][i].versionstamp # preCommit[p][i].versionstamp

\* C3 witness: one transfer has been committed, another one lost the race
\* against it and wrote nothing, and a third party would see both balances
\* changed.
C3_Witness ==
  \E p, q \in Procs :
     /\ pc[p] = "committed"
     /\ count[q].conflicts >= 1
     /\ postCommit[q] = preCommit[q] /\ preCommit[q] # <<>>
     /\ \A k \in Watched(p) : kv[k].value # kv0[k].value

\* The scenario of C9: exactly two calls, both with the default retry count,
\* on a key that starts at 0, both returned.
TwoUpdatersDone ==
  /\ Made = {1, 2}
  /\ \A p \in Made : call[p].retry = <<>> /\ Ended(p)
  /\ kv0[1].value = Num(0)

\* C9 as stated (SpecIncr): after both updaters have completed, both
\* returned ok:true, the value is 2, and at least one caller saw exactly one
\* conflict -- in every interleaving.
C9_AlwaysOneConflict ==
  TwoUpdatersDone =>
    /\ \A p \in Made : response[p].ok
    /\ kv[1].value = Num(2)
    /\ \E p \in Made : count[p].conflicts = 1

\* C9 amended (SpecIncr): after both updaters have completed, both returned
\* ok:true and the value is 2; a caller saw a conflict exactly on the
\* attempts during which the other one committed between its read and its
\* commit, which happens at most once in all: one caller saw exactly one
\* conflict when the calls overlapped so, and none did otherwise.
C9_BothCommitAtMostOneConflict ==
  TwoUpdatersDone =>
    /\ \A p \in Made : response[p].ok
    /\ kv[1].value = Num(2)
    /\ \A p \in Made : count[p].conflicts = count[p].interfered
    /\ SumOver([p \in Procs |-> count[p].conflicts], Made) <= 1

\* C9 witness: both have completed and one of them saw exactly one conflict.
C9_Witness ==
  /\ TwoUpdatersDone
  /\ \E p \in Made : count[p].conflicts = 1 /\ response[p].ok

\* C2 (Spec).  Calculations are based on up-to-date data: whenever a call
\* has resolved ok:true, the entries its committing attempt read (whose
\* values went to the update function) are the entries the store held for
\* its watched keys at the instant of the commit, values and versionstamps,
\* and nobody wrote a watched key between that read and that commit.
C2_CommitOnFreshRead ==
  \A p \in Procs :
     pc[p] = "committed" =>
       /\ response[p].ok
       /\ results[p] = preCommit[p]
       /\ ~dirty[p]

\* C2 witness: a call resolved ok:true on a retry, after another writer had
\* invalidated its first read.
C2_Witness ==
  \E p \in Procs :
     /\ pc[p] = "committed"
     /\ count[p].conflicts >= 1
     /\ extWrites >= 1
     /\ ValuesOf(results[p]) # ValuesOf(GetMany(kv0, call[p].keys))

\* The update function invoked abort on the attempt the call is in.
AbortInvoked(p) == HasRead(p) /\ pc[p] # "computing" /\ Ran(p).aborts # <<>>

\* C4 (Spec).  If the update function invokes abort during an attempt, with
\* or without a reason, through either entry point, then the call ends there
\* as aborted, no transaction was built or committed on that attempt (its
\* commit attempts are those of the earlier attempts), the value the function
\* returned is not what the call resolves with, and no watched key holds a
\* write of this call.
C4_AbortLeavesStoreAlone ==
  \A p \in Procs :
     AbortInvoked(p) =>
       /\ pc[p] = "aborted"
       /\ tx[p] = <<>>
       /\ count[p].commits = count[p].reads - 1
       /\ Ran(p).returned => ResponseValues(p) # Ran(p).value
       /\ \A k \in Watched(p) : writtenBy[k] # p

\* C4 witness: a setSafeAtomic call aborted without a reason while returning
\* a value, and a setSafeAtomicMany call aborted with a reason on a retry.
C4_Witness ==
  \E p, q \in Procs :
     /\ call[p].api = "single" /\ pc[p] = "aborted"
     /\ Ran(p).aborts = <<NoReason>>
     /\ call[q].api = "many" /\ pc[q] = "aborted"
     /\ count[q].reads >= 2
     /\ Truthy(Ran(q).aborts[1])

\* C5 (Spec).  When the update function invokes abort, the response is
\* ok:false with the values read at the start of that same attempt, in key
\* order -- also when the function changed its array in place and when the
\* abort comes on a retry -- and with the (non-empty) reason supplied as its
\* error.
C5_AbortResponse ==
  \A p \in Procs :
     pc[p] = "aborted" =>
       /\ response[p].ok = FALSE
       /\ ResponseValues(p) = ValuesOf(results[p])
       /\ \A i \in 1..Len(call[p].keys) : results[p][i].key = call[p].keys[i]
       /\ (Len(Ran(p).aborts) = 1 /\ Truthy(Ran(p).aborts[1]))
            => response[p].error = Ran(p).aborts[1]

\* C5 witness: an abort with a reason on a retry, by a function that had
\* changed its array in place, reporting values that differ from those of
\* the first read.
C5_Witness ==
  \E p \in Procs :
     /\ pc[p] = "aborted"
     /\ call[p].fn = "transferInPlace"
     /\ count[p].reads >= 2
     /\ Ran(p).args # ValuesOf(results[p])
     /\ response[p].error = InsufficientFunds
     /\ ResponseValues(p) # ValuesOf(GetMany(kv0, call[p].keys))

\* C6 (Spec).  If another writer changes a watched key between the read and
\* the commit of every attempt until the retry budget is used up, the call
\* resolves ok:false with error "Failed to commit transaction"; and as long
\* as a call has not committed -- so up to and after that return -- no
\* watched key holds a value it wrote.
C6_ExhaustedByInterference ==
  \A p \in Procs :
     /\ (count[p].interfered = Budget(p) + 1 /\ count[p].commits = Budget(p) + 1)
          => /\ pc[p] = "exhausted"
             /\ response[p].ok = FALSE
             /\ response[p].error = CommitFailed
     /\ pc[p] # "committed" => \A k \in Watched(p) : writtenBy[k] # p

\* C6 witness: a call with a retry budget of 1 lost both of its attempts to
\* the kv.set writer, whose value the store holds.
C6_Witness ==
  \E p \in Procs :
     /\ pc[p] = "exhausted"
     /\ Budget(p) = 1
     /\ count[p].interfered = 2
     /\ \E k \in Watched(p) : writtenBy[k] = ExtWriter /\ kv[k].value \in ExtValues

\* C7 (Spec).  When the retry budget is exhausted, the values reported are
\* those read on the last attempt, whatever the update function did to its
\* array.
C7_ExhaustedValues ==
  \A p \in Procs :
     pc[p] = "exhausted" =>
       /\ retryCount[p] = 0
       /\ ResponseValues(p) = ValuesOf(results[p])

\* C7 witness: exhaustion on the second attempt of a function that changes
\* its array in place; the values reported are neither those of the first
\* read nor the function's output.
C7_Witness ==
  \E p \in Procs :
     /\ pc[p] = "exhausted"
     /\ call[p].fn = "transferInPlace"
     /\ count[p].reads = 2
     /\ ResponseValues(p) # ValuesOf(GetMany(kv0, call[p].keys))
     /\ ResponseValues(p) # updatedValues[p]
     /\ Ran(p).args = updatedValues[p]

\* On the attempt the call is in, the update function does not abort and
\* returns one value per key.
WellBehaved(p) ==
  /\ Ran(p).aborts = <<>>
  /\ Ran(p).returned
  /\ Len(Ran(p).value) = Len(call[p].keys)

\* C8 (Spec).  For every number of keys and every retry budget: if the
\* update function does not abort, returns one value per key, and no other
\* writer touches the watched keys during the call, the call makes exactly
\* one read and one commit and resolves ok:true with error null and the
\* function's output as its values, and right after the commit every key i
\* holds the i-th of them.
C8_FirstAttemptSucceeds ==
  \A p \in Procs :
     (HasRead(p) /\ count[p].interfered = 0 /\ WellBehaved(p)) =>
       /\ pc[p] \in {"computing", "committing", "committed"}
       /\ count[p].reads = 1
       /\ pc[p] = "committed" =>
            /\ count[p].commits = 1
            /\ count[p].computes = 1
            /\ response[p] = ResponseOf(call[p].api, TRUE, NullError, Ran(p).value)
            /\ \A i \in 1..Len(call[p].keys) :
                 /\ postCommit[p][i].key = call[p].keys[i]
                 /\ postCommit[p][i].value = ResponseValues(p)[i]

\* C8 witness: a two-key call without retries committed at once while
\* another call was running, and a single-key call did the same.
C8_Witness ==
  \E p \in Procs :
     /\ pc[p] = "committed"
     /\ Len(call[p].keys) = 2
     /\ call[p].retry = <<0>>
     /\ count[p].interfered = 0
     /\ \E q \in Procs \ {p} : pc[q] = "committed" /\ Len(call[q].keys) = 1
                               /\ count[q].interfered = 0

\* C10 as stated (Spec): whenever a call returns the abort response, no
\* commit attempt occurred during that call, over all of its attempts.
C10_AbortMeansNoCommitAtAll ==
  \A p \in Procs : pc[p] = "aborted" => count[p].commits = 0

\* C10 amended (Spec): a call returns the abort response exactly when the
\* update function invoked abort on its last attempt; no commit is attempted
\* on that attempt, and every commit attempt of the call belongs to an
\* earlier attempt and failed (one per earlier attempt), whereas a call that
\* ends exhausted made a commit attempt on every attempt.
C10_AbortMeansNoCommitOnThatAttempt ==
  \A p \in Procs :
     /\ Ended(p) => (pc[p] = "aborted" <=> Ran(p).aborts # <<>>)
     /\ pc[p] = "aborted" =>
          /\ count[p].commits = count[p].reads - 1
          /\ count[p].conflicts = count[p].commits
          /\ count[p].commits <= Budget(p)
     /\ pc[p] = "exhausted" =>
          /\ count[p].commits = count[p].reads
          /\ count[p].commits = Budget(p) + 1

\* C10 witness: an abort response after a failed commit attempt.
C10_Witness ==
  \E p \in Procs : pc[p] = "aborted" /\ count[p].commits >= 1

\* The calls whose update function returns what it was handed.
IdentityCallers == {p \in Procs : call[p].fn = "identity"}

\* C11 as claimed (SpecIdentity): a call whose update function returns its
\* input unchanged leaves the watched entries, values and versionstamps,
\* as they were, whatever the number of attempts, and so writes no key that
\* a concurrent call watches.
C11_IdentityLeavesEntriesUnchanged ==
  \A p \in IdentityCallers :
     /\ preCommit[p] # <<>> => postCommit[p] = preCommit[p]
     /\ \A k \in Keys : writtenBy[k] # p

\* C11 amended (SpecIdentity): a call whose update function returns its
\* input unchanged leaves the values of the watched keys as they were at
\* every commit attempt, and resolves ok:true with the values it read; its
\* successful commit still sets every watched key, so each of them gets the
\* commit's new versionstamp, and a failed one changes nothing.  When only
\* such calls run, the store keeps its initial values.
C11_IdentityLeavesValuesUnchanged ==
  /\ \A p \in IdentityCallers :
        /\ preCommit[p] # <<>> =>
              ValuesOf(postCommit[p]) = ValuesOf(preCommit[p])
        /\ pc[p] = "committed" =>
              /\ ResponseValues(p) = ValuesOf(preCommit[p])
              /\ \A i \in 1..Len(call[p].keys) :
                    postCommit[p][i].versionstamp > preCommit[p][i].versionstamp
        /\ (Ended(p) /\ pc[p] # "committed") =>
              /\ pc[p] = "exhausted"
              /\ postCommit[p] = preCommit[p]
  /\ (Made \subseteq IdentityCallers /\ extWrites = 0) =>
        \A k \in Keys : kv[k].value = kv0[k].value

\* C11 witness: two calls that return their input, nobody else writing; one
\* committed and left the values as they were, and its commit made the
\* other one's commit fail.
C11_Witness ==
  \E p, q \in IdentityCallers :
     /\ p # q /\ extWrites = 0
     /\ pc[p] = "committed" /\ count[p].conflicts = 0
     /\ count[q].conflicts = 1
     /\ \A k \in Keys : kv[k].value = kv0[k].value

\* C12 (SpecPair).  setSafeAtomic(key, fn, budget) behaves as
\* setSafeAtomicMany([key], (values, abort) => [fn(values[0], abort)],
\* budget) does: whenever the two calls have taken the same steps under the
\* same writes, they are at the same place with the same remaining budget,
\* have made the same reads, invocations, commit attempts and failed commits,
\* built the same checks and sets, left the same value in the store, and
\* resolved with the same ok and error and with value = values[0].
C12_SingleIsManyOfOne ==
  Position(1) = Position(2) =>
     /\ pc[1] = pc[2]
     /\ retryCount[1] = retryCount[2]
     /\ count[1] = count[2]
     /\ raised[1] = raised[2]
     /\ kv[1].value = kv[2].value
     /\ ValuesOf(results[1]) = ValuesOf(results[2])
     /\ Len(tx[1]) = Len(tx[2])
     /\ \A j \in 1..Len(tx[1]) :
          /\ tx[1][j].op = tx[2][j].op
          /\ tx[1][j].op = "set" => tx[1][j].value = tx[2][j].value
     /\ response[1].ok = response[2].ok
     /\ response[1].error = response[2].error
     /\ pc[1] \in {"committed", "aborted", "exhausted"} =>
          /\ DOMAIN response[1] = {"ok", "error", "value"}
          /\ DOMAIN response[2] = {"ok", "error", "values"}
          /\ response[1].value = response[2].values[1]

\* C12 witness: both calls have returned after the same steps, having been
\* through a failed commit (they then committed or ran out of retries).
C12_Witness ==
  /\ Position(1) = Position(2)
  /\ Ended(1) /\ Ended(2)
  /\ count[1].conflicts >= 1
  /\ response[1].value = response[2].values[1]

\* The update function, run on the values of the current attempt, did not
\* invoke abort and returned nothing or a miscounted array.
Faulty(p) ==
  /\ Ran(p).aborts = <<>>
  /\ ~Ran(p).returned \/ Len(Ran(p).value) # Len(call[p].keys)

\* C13 (SpecErrors).  A call throws exactly on the attempt, first or later,
\* whose update function, without invoking abort, returns nothing or an
\* array whose length is not the number of keys.  The error is the one for
\* the missing or the miscounted return value; the attempt builds and commits
\* no transaction, the call makes no further attempt and resolves to no
\* response, and the call has written nothing to the store: every commit it
\* attempted before failed.
C13_BadReturnThrows ==
  \A p \in Procs :
     /\ (Ended(p) \/ pc[p] = "committing") => (pc[p] = "thrown" <=> Faulty(p))
     /\ pc[p] # "thrown" => raised[p] = ""
     /\ pc[p] = "thrown" =>
          /\ raised[p] = IF Ran(p).returned THEN CountMismatch ELSE MissingReturn
          /\ response[p] = NoResponse
          /\ tx[p] = <<>>
          /\ count[p].computes = count[p].reads
          /\ count[p].commits = count[p].reads - 1
          /\ count[p].conflicts = count[p].commits
          /\ retryCount[p] = Budget(p) - count[p].conflicts
          /\ \A k \in Keys : writtenBy[k] # p

\* C13 witness: a call threw on a retry, after a failed commit, because its
\* update function returned too few values for the values it read then.
C13_Witness ==
  \E p \in Procs :
     /\ pc[p] = "thrown" /\ raised[p] = CountMismatch
     /\ count[p].conflicts >= 1
     /\ Len(updatedValues[p]) < Len(call[p].keys)

\* C14 as claimed (Spec): the call is tried until the write is successful:
\* a call whose update function does not abort (and returns one value per
\* key) goes on reading, computing and committing until a commit succeeds,
\* so whenever it has returned, it has returned ok:true, whatever the other
\* writers did.
C14_RetriedUntilSuccessful ==
  \A p \in Procs :
     (Ended(p) /\ WellBehaved(p)) => (pc[p] = "committed" /\ response[p].ok)

\* 1 if the condition holds, else 0.
One(b) == IF b THEN 1 ELSE 0

\* C15 (Spec).  With retry budget R >= 0 a call makes at most R+1 attempts,
\* whatever the other writers do: at most R+1 reads, R+1 invocations of the
\* update function and R+1 commit attempts; every attempt has exactly one
\* read, then one invocation, then at most one commit attempt; the remaining
\* budget is R minus the number of failed commits that were followed by a
\* retry; and the call reports exhaustion exactly when a commit failed with
\* no budget left, which is its (R+1)-th failed commit.
C15_AtMostBudgetPlusOneAttempts ==
  \A p \in Made :
     LET R == Budget(p)
         c == count[p]
     IN /\ R >= 0 /\ retryCount[p] >= 0
        /\ c.reads <= R + 1 /\ c.computes <= R + 1 /\ c.commits <= R + 1
        /\ c.reads = c.conflicts + One(pc[p] \notin {"reading", "exhausted"})
        /\ c.computes = c.reads - One(pc[p] = "computing")
        /\ c.commits = c.conflicts + One(pc[p] = "committed")
        /\ retryCount[p] = R - c.conflicts + One(pc[p] = "exhausted")
        /\ pc[p] = "exhausted" <=> c.conflicts = R + 1
        /\ pc[p] = "exhausted" =>
              (retryCount[p] = 0 /\ response[p].error = CommitFailed)
        /\ response[p].error = CommitFailed => pc[p] = "exhausted"

\* C15 witness: a call with budget 1 reported exhaustion after two reads,
\* two invocations and two failed commits.
C15_Witness ==
  \E p \in Made :
     /\ Budget(p) = 1 /\ pc[p] = "exhausted"
     /\ count[p].reads = 2 /\ count[p].computes = 2 /\ count[p].commits = 2

\* C16 (Spec).  Every attempt starts with a read of the call's keys, in
\* their order, made in that attempt: as long as nobody has written a watched
\* key since the attempt's read, the entries the attempt holds are the
\* store's current ones (so never those of an earlier attempt, which a write
\* made stale).  The update function's output is computed from the values of
\* that read, and the transaction checks, key by key, exactly the
\* versionstamps of that read.
C16_EachAttemptReadsAfresh ==
  \A p \in Made :
     /\ pc[p] = "reading" => (results[p] = <<>> /\ tx[p] = <<>>)
     /\ HasRead(p) =>
          /\ count[p].reads = count[p].conflicts + One(pc[p] # "exhausted")
          /\ Len(results[p]) = Len(call[p].keys)
          /\ \A i \in 1..Len(call[p].keys) : results[p][i].key = call[p].keys[i]
     /\ (InFlight(p) /\ ~dirty[p]) =>
          \A i \in 1..Len(call[p].keys) :
             /\ results[p][i].value = kv[call[p].keys[i]].value
             /\ results[p][i].versionstamp = kv[call[p].keys[i]].versionstamp
     /\ pc[p] = "committing" =>
          /\ updatedValues[p] = Ran(p).value
          /\ Len(tx[p]) = 2 * Len(call[p].keys)
          /\ \A i \in 1..Len(call[p].keys) :
                /\ tx[p][2 * i - 1] =
                      [op |-> "check", key |-> call[p].keys[i],
                       versionstamp |-> results[p][i].versionstamp]
                /\ tx[p][2 * i] =
                      [op |-> "set", key |-> call[p].keys[i],
                       value |-> updatedValues[p][i]]

\* C16 witness: a call is about to commit on its second attempt; nobody
\* wrote since that attempt's read, and the versionstamp it checks is not
\* the one the store had when the call began.
C16_Witness ==
  \E p \in Made :
     /\ pc[p] = "committing" /\ count[p].reads = 2 /\ ~dirty[p]
     /\ \E i \in 1..Len(call[p].keys) :
          tx[p][2 * i - 1].versionstamp # kv0[call[p].keys[i]].versionstamp

\* C17 (Spec).  A commit fails only if somebody else wrote a watched key
\* between that attempt's read and its commit: a call has no more failed
\* commits than attempts so interfered with, and none at all while nobody
\* has written a key of its batch, whatever was written to other keys.
\* Calls over disjoint sets of keys, with no other writer, have no failed
\* commit, and those whose update function returns one value per key
\* without aborting commit on their first attempt.
C17_ConflictOnlyOnWatchedWrite ==
  \A p \in Made :
     /\ count[p].conflicts <= count[p].interfered
     /\ (\A k \in Watched(p) : writtenBy[k] = 0) => count[p].conflicts = 0
     /\ (extWrites = 0 /\ \A q \in Made \ {p} : Watched(q) \cap Watched(p) = {}) =>
          /\ count[p].conflicts = 0
          /\ count[p].reads <= 1
          /\ (Ended(p) /\ WellBehaved(p)) => (pc[p] = "committed" /\ response[p].ok)

\* C17 witness: two calls over disjoint keys and no other writer; both have
\* committed on their first attempt, each having written its own keys.
C17_Witness ==
  \E p, q \in Made :
     /\ p # q /\ Watched(p) \cap Watched(q) = {} /\ extWrites = 0
     /\ pc[p] = "committed" /\ count[p].reads = 1
     /\ pc[q] = "committed" /\ count[q].reads = 1
     /\ \A k \in Watched(p) : writtenBy[k] = p
     /\ \A k \in Watched(q) : writtenBy[k] = q

\* The last non-empty reason among the reasons abort was invoked with, or
\* null when there is none.
LastSupplied(aborts) ==
  LET given == {i \in 1..Len(aborts) : aborts[i] # NoReason /\ aborts[i] # ""}
  IN IF given = {} THEN NullError
     ELSE aborts[CHOOSE i \in given : \A j \in given : j <= i]

\* C18 (SpecAborts).  When the update function invokes abort, once or more,
\* the attempt is aborted, and the error reported is the last reason that
\* was supplied: an abort invoked afterwards with no reason or with the
\* empty string leaves the earlier reason standing, and null is reported
\* only when no invocation supplied a reason.
C18_LastSuppliedReasonWins ==
  \A p \in Made :
     (HasRead(p) /\ pc[p] # "computing" /\ Ran(p).aborts # <<>>) =>
        /\ pc[p] = "aborted"
        /\ ~response[p].ok
        /\ response[p].error = LastSupplied(Ran(p).aborts)

\* C18 witness: the update function invoked abort with a reason and then
\* without one (or with the empty string); the call was aborted with the
\* first reason as its error.
C18_Witness ==
  \E p \in Made :
     /\ pc[p] = "aborted"
     /\ Len(Ran(p).aborts) = 2
     /\ Ran(p).aborts[2] \in {NoReason, ""}
     /\ response[p].error = FirstReason

\* C20 (SpecAborts).  The shape of a response: ok:true comes with error
\* null, and only from a commit that went through; ok:false comes with
\* "Failed to commit transaction" when the retries ran out and with the
\* reason supplied when the update function aborted; ok:false with error
\* null is returned exactly when abort was invoked and no invocation
\* supplied a non-empty reason.
C20_ResponseShape ==
  \A p \in Made :
     /\ ~Ended(p) \/ pc[p] = "thrown" <=> response[p] = NoResponse
     /\ response[p] # NoResponse =>
          /\ response[p].ok <=> pc[p] = "committed"
          /\ response[p].ok => response[p].error = NullError
          /\ pc[p] = "exhausted" => response[p].error = CommitFailed
          /\ pc[p] = "aborted" =>
                /\ Ran(p).aborts # <<>>
                /\ response[p].error = LastSupplied(Ran(p).aborts)
          /\ (~response[p].ok /\ response[p].error = NullError) <=>
                /\ pc[p] = "aborted"
                /\ \A i \in 1..Len(Ran(p).aborts) :
                      Ran(p).aborts[i] \in {NoReason, ""}

\* C20 witness: a call that aborted with the empty string as its reason
\* returned ok:false with error null.
C20_Witness ==
  \E p \in Made :
     /\ pc[p] = "aborted" /\ Ran(p).aborts = <<"">>
     /\ ~response[p].ok /\ response[p].error = NullError

\* The other calls whose commit went through.
CommittedOthers(p) == {q \in Made \ {p} : pc[q] = "committed"}

\* C19 (SpecOverlap).  K calls with update functions that do not abort run
\* on overlapping keys and nobody else writes.  Every failed commit of a
\* call follows a successful commit of another call made between its read
\* and its commit, and each other call accounts for at most one: a call has
\* at most as many failed commits as other calls have committed, so at most
\* K-1, and whenever a commit has failed some call has committed.  A call
\* with retry budget K-1 or more therefore returns ok:true, in every
\* interleaving.
C19_BoundedInterference ==
  LET K == Cardinality(Made)
  IN \A p \in Made :
        /\ extWrites = 0
        /\ count[p].conflicts <= count[p].interfered
        /\ count[p].interfered <= Cardinality(CommittedOthers(p))
        /\ count[p].conflicts <= K - 1
        /\ count[p].conflicts > 0 => \E q \in Made : pc[q] = "committed"
        /\ (Budget(p) >= K - 1 /\ Ended(p)) =>
              (pc[p] = "committed" /\ response[p].ok)

\* C19 witness: two overlapping calls have both returned ok:true; one of
\* them, with a budget of one retry, after one failed commit caused by the
\* other's commit.
C19_Witness ==
  \E p, q \in Made :
     /\ p # q /\ Cardinality(Made) = 2
     /\ Budget(p) = 1 /\ count[p].conflicts = 1
     /\ response[p].ok /\ response[q].ok
     /\ Watched(p) # Watched(q)

\* C21 (SpecSingle).  A setSafeAtomic call never throws the missing-return
\* or the count error: its update function's result always reaches
\* setSafeAtomicMany as an array of one value.  When that function returns
\* nothing and does not abort, the call goes on to commit the set of the key
\* to undefined: it ends committed or out of retries, never aborted; once
\* committed it has resolved ok:true with error null and value undefined and
\* its commit left undefined in the key; and with no write to the key by
\* anybody else during its attempts it commits on the first one.
C21_SingleNeverThrows ==
  \A p \in Made :
     call[p].api = "single" =>
        /\ pc[p] # "thrown" /\ raised[p] = ""
        /\ call[p].fn = "nothing" =>
              /\ pc[p] # "aborted"
              /\ pc[p] = "committing" =>
                    tx[p][2] = [op |-> "set", key |-> call[p].keys[1],
                                value |-> Undefined]
              /\ pc[p] = "committed" =>
                    /\ response[p] =
                          [ok |-> TRUE, error |-> NullError, value |-> Undefined]
                    /\ postCommit[p][1].value = Undefined
                    /\ postCommit[p][1].versionstamp > preCommit[p][1].versionstamp
              /\ (Ended(p) /\ count[p].interfered = 0) =>
                    (pc[p] = "committed" /\ count[p].reads = 1)

\* C21 witness: a setSafeAtomic call whose update function returned nothing
\* has committed on its first attempt, and the key, which held a number,
\* now holds undefined.
C21_Witness ==
  \E p \in Made :
     /\ call[p].api = "single" /\ call[p].fn = "nothing"
     /\ pc[p] = "committed" /\ count[p].reads = 1
     /\ preCommit[p][1].value = Num(100)
     /\ kv[call[p].keys[1]].value = Undefined

\* C22 (SpecNegative).  The retryCount is not validated, and a call made
\* with one below zero never reports exhaustion: every failed commit is
\* followed by another attempt with the retryCount one lower, further below
\* zero, so the call has made one read per failed commit and ends only by a
\* commit that goes through, an abort or a thrown error; an attempt during
\* which somebody wrote a watched key never commits, so as long as somebody
\* does so during each attempt, the call is still retrying.
C22_NegativeBudgetNeverExhausts ==
  \A p \in Made :
     Budget(p) < 0 =>
        /\ pc[p] # "exhausted"
        /\ response[p].error # CommitFailed
        /\ retryCount[p] = Budget(p) - count[p].conflicts
        /\ retryCount[p] < 0
        /\ count[p].reads = count[p].conflicts + One(pc[p] # "reading")
        /\ Ended(p) => pc[p] \in {"committed", "aborted", "thrown"}
        /\ (count[p].interfered > count[p].conflicts) =>
              (dirty[p] /\ pc[p] \in {"computing", "committing", "aborted", "thrown"})

\* C22 witness: a call made with retryCount -1 has failed to commit twice,
\* once for each write made by the kv.set writer, and is reading again with
\* retryCount -3.
C22_Witness ==
  \E p \in Made :
     /\ Budget(p) = -1 /\ pc[p] = "reading"
     /\ count[p].conflicts = MaxExtWrites
     /\ extWrites = MaxExtWrites
     /\ retryCount[p] = -1 - MaxExtWrites

====
